---------------------------- MODULE Spec2Model ----------------------------
(***************************************************************************)
(* Model of plot-dst.py: the download / cache / parse pipeline for the     *)
(* Dst index (one HTML file per month) and the sunspot table (one text     *)
(* file), and the month loop of main that assembles the Dst series.        *)
(*                                                                         *)
(* Text is a sequence of one-character strings.  An HTML file is a         *)
(* sequence of such characters and of tag tokens (strings longer than one  *)
(* character).  A datetime is <<year, month, day, hour>>, a date is        *)
(* <<year, month, day>>.                                                   *)
(***************************************************************************)
EXTENDS Integers, Sequences, FiniteSets, TLC

VARIABLES
    dst_in,      \* argument of parse_dst_data_file: [year, month, data]
    dst_meta,    \* how the fixture in dst_in was built (ghost)
    dst_out,     \* result of parse_dst_data_file, or pending
    sun_in,      \* argument of parse_sunspot_data_file: the lines of the file
    sun_meta,    \* how the fixture in sun_in was built (ghost)
    sun_out,     \* result of parse_sunspot_data_file, or pending
    pc,          \* position of the process running main
    args,        \* [start_date, end_date] of the current run
    cache,       \* the cache directory: key -> file content or NoFile
    current_date,\* loop variable of main
    time_array,  \* main's accumulated timestamps
    dst_array,   \* main's accumulated Dst values
    pending,     \* [key, body]: response being written to the open cache file
    gets,        \* key -> number of GET requests issued in the current run
    fed,         \* sequence of [key, data] handed to a parser in the current run
    last_get,    \* [key, status] of the latest GET of the current run, or NoGet
    sunspot_data,\* what get_sunspot_data returned to main in the current run
    torn,        \* keys whose cache write was interrupted (ghost)
    output       \* TRUE once savefig has written the plot in the current run

vars == <<dst_in, dst_meta, dst_out, sun_in, sun_meta, sun_out, pc, args, cache,
          current_date, time_array, dst_array, pending, gets, fed, last_get,
          sunspot_data, torn, output>>

dstVars  == <<dst_in, dst_meta, dst_out>>
sunVars  == <<sun_in, sun_meta, sun_out>>
mainVars == <<pc, args, cache, current_date, time_array, dst_array, pending, gets,
              fed, last_get, sunspot_data, torn, output>>

\* A path of the cache directory holds a file with some content, or nothing.
NoFile     == [exists |-> FALSE, data |-> <<>>]
File(data) == [exists |-> TRUE, data |-> data]

NoDate    == <<0, 0, 0>>
NoArgs    == [start_date |-> NoDate, end_date |-> NoDate]
NoPending == [key |-> -1, body |-> <<>>]
NoGet     == [key |-> -1, status |-> 0]

---------------------------------------------------------------------------
(* Text helpers: Python's slicing, str.strip, str.split, int() and float(). *)

SetMin(S) == CHOOSE x \in S : \A y \in S : x <= y
SetMax(S) == CHOOSE x \in S : \A y \in S : x >= y

Whitespace == {" ", "\t", "\n", "\r"}
DigitChars == <<"0", "1", "2", "3", "4", "5", "6", "7", "8", "9">>
DigitSet   == {DigitChars[i] : i \in 1..10}
DigitVal(c) == (CHOOSE i \in 1..10 : DigitChars[i] = c) - 1

\* s[a:b] for 0 <= a <= b: out-of-range indices are clamped, never an error.
Slice(s, a, b) ==
    LET hi == IF b < Len(s) THEN b ELSE Len(s)
    IN  IF a + 1 > hi THEN <<>> ELSE SubSeq(s, a + 1, hi)

\* s.strip()
Strip(s) ==
    LET idx == {i \in 1..Len(s) : s[i] \notin Whitespace}
    IN  IF idx = {} THEN <<>> ELSE SubSeq(s, SetMin(idx), SetMax(idx))

\* s.startswith(p)
StartsWith(s, p) == Len(s) >= Len(p) /\ SubSeq(s, 1, Len(p)) = p

\* s.split('\n')
RECURSIVE SplitLines(_)
SplitLines(s) ==
    LET nl == {i \in 1..Len(s) : s[i] = "\n"}
    IN  IF nl = {} THEN <<s>>
        ELSE LET k == SetMin(nl)
             IN  <<SubSeq(s, 1, k - 1)>> \o SplitLines(SubSeq(s, k + 1, Len(s)))

\* Digits with single underscores allowed strictly between digits.
DigitGroup(t) ==
    /\ Len(t) >= 1
    /\ \A i \in 1..Len(t) : t[i] \in DigitSet \/ t[i] = "_"
    /\ t[1] # "_" /\ t[Len(t)] # "_"
    /\ \A i \in 1..(Len(t) - 1) : ~(t[i] = "_" /\ t[i + 1] = "_")

RECURSIVE DigitsValue(_)
DigitsValue(t) ==
    IF Len(t) = 0 THEN 0
    ELSE LET c == t[Len(t)]  r == SubSeq(t, 1, Len(t) - 1)
         IN  IF c = "_" THEN DigitsValue(r) ELSE 10 * DigitsValue(r) + DigitVal(c)

Failure == [ok |-> FALSE, val |-> 0]

\* int(s): surrounding whitespace stripped, optional sign, decimal digits;
\* anything else (the empty string included) raises ValueError.
ParseInt(s) ==
    LET t    == Strip(s)
        sgn  == Len(t) >= 1 /\ t[1] \in {"+", "-"}
        body == IF sgn THEN SubSeq(t, 2, Len(t)) ELSE t
    IN  IF ~DigitGroup(body) THEN Failure
        ELSE [ok  |-> TRUE,
              val |-> IF sgn /\ t[1] = "-" THEN 0 - DigitsValue(body)
                      ELSE DigitsValue(body)]

---------------------------------------------------------------------------
(* Calendar: datetime(...) and relativedelta.                              *)

IsLeap(y) == (y % 4 = 0 /\ y % 100 # 0) \/ y % 400 = 0

DaysInMonth(y, m) ==
    IF m = 2 THEN (IF IsLeap(y) THEN 29 ELSE 28)
    ELSE IF m \in {4, 6, 9, 11} THEN 30 ELSE 31

\* datetime(year, month, day, hour) raises ValueError outside these ranges.
ValidDateTime(y, m, d, h) ==
    /\ y \in 1..9999
    /\ m \in 1..12
    /\ d \in 1..DaysInMonth(y, m)
    /\ h \in 0..23

\* A day added without carrying December into the next year.
AddOneDay_no_year_carry(t) ==
    IF t[3] < DaysInMonth(t[1], t[2]) THEN <<t[1], t[2], t[3] + 1, t[4]>>
    ELSE <<t[1], (t[2] % 12) + 1, 1, t[4]>>

\* t + relativedelta(days = 1)
AddOneDay(t) ==
    IF t[3] < DaysInMonth(t[1], t[2]) THEN <<t[1], t[2], t[3] + 1, t[4]>>
    ELSE IF t[2] < 12 THEN <<t[1], t[2] + 1, 1, t[4]>>
    ELSE <<t[1] + 1, 1, 1, t[4]>>

\* Order of datetime (and date) values: lexicographic on the fields.
RECURSIVE TimeLess(_, _)
TimeLess(a, b) ==
    IF Len(a) = 0 \/ Len(b) = 0 THEN FALSE
    ELSE \/ a[1] < b[1]
         \/ a[1] = b[1] /\ TimeLess(Tail(a), Tail(b))

---------------------------------------------------------------------------
(* parse_dst_data_file                                                     *)

PreDataOpen == "<pre class=\"data\">"
PreOpen     == "<pre>"
PreClose    == "</pre>"
HtmlOpen    == "<html>"
HtmlClose   == "</html>"
Tags        == {PreDataOpen, PreOpen, PreClose, HtmlOpen, HtmlClose}

RECURSIVE SortedSeq(_)
SortedSeq(S) ==
    IF S = {} THEN <<>>
    ELSE LET k == SetMin(S) IN <<k>> \o SortedSeq(S \ {k})

IsText(c) == c \notin Tags

\* Text of the element opened at position i: up to its closing tag, or to the
\* end of the document when the tag is never closed; tags inside are dropped.
ElementText(data, i) ==
    LET closes == {j \in (i + 1)..Len(data) : data[j] = PreClose}
        stop   == IF closes = {} THEN Len(data) + 1 ELSE SetMin(closes)
    IN  SelectSeq(SubSeq(data, i + 1, stop - 1), IsText)

\* root.find_all('pre', {'class': 'data'}), as the texts of the elements found.
find_all_pre_data(data) ==
    LET opens == SortedSeq({i \in 1..Len(data) : data[i] = PreDataOpen})
    IN  [k \in 1..Len(opens) |-> ElementText(data, opens[k])]

HoursPerDay == 24
FieldWidth  == 4

\* Uniform four-column fields: what the layout would be without the two
\* one-character shifts.
start_index_uniform(hour) == hour * 4 - 1

\* First column (0-indexed) of the field of the given hour.
start_index(hour) ==
    IF hour <= 8 THEN hour * 4 - 1
    ELSE IF hour <= 16 THEN hour * 4
    ELSE hour * 4 + 1

\* Hour 24 kept on the day of the record (no day added).
hour_time_same_day(year, month, day, hour) ==
    IF hour = 24 THEN <<year, month, day, 0>>
    ELSE <<year, month, day, hour>>

\* Timestamp of the sample of the given hour of a day record.
hour_time(year, month, day, hour) ==
    IF hour = 24 THEN AddOneDay(<<year, month, day, 0>>)
    ELSE <<year, month, day, hour>>

\* parse_dst_data_file has not been called yet.
PendingDst == [ok |-> FALSE, err |-> "pending", time_array |-> <<>>, dst_array |-> <<>>]

\* parse_sunspot_data_file has not been called yet.
PendingSun ==
    [ok |-> FALSE, err |-> "pending", time_array |-> <<>>, raw_array |-> <<>>,
     smoothed_array |-> <<>>]

RaisedSun(why) == [PendingSun EXCEPT !.err = why]

NoMonths ==
    [ok |-> TRUE, err |-> "", time_array |-> <<>>, raw_array |-> <<>>,
     smoothed_array |-> <<>>]

Raised(why) == [ok |-> FALSE, err |-> why, time_array |-> <<>>, dst_array |-> <<>>]

\* One day record: the body of `if data_section and line.strip() != ''`.
dst_record(line, year, month) ==
    LET day == ParseInt(Slice(line, 0, 2))
        fld(h) == ParseInt(Slice(line, start_index(h), start_index(h) + FieldWidth))
        good == /\ day.ok
                /\ \A h \in 1..HoursPerDay :
                      /\ fld(h).ok
                      /\ ValidDateTime(year, month, day.val, IF h = 24 THEN 0 ELSE h)
    IN  IF ~good THEN Raised("ValueError")
        ELSE [ok |-> TRUE, err |-> "",
              time_array |-> [h \in 1..HoursPerDay |-> hour_time(year, month, day.val, h)],
              dst_array  |-> [h \in 1..HoursPerDay |-> fld(h).val]]

\* The loop over the lines of the block, from line i on, with the samples
\* collected so far.
RECURSIVE dst_lines(_, _, _, _, _, _)
dst_lines(lines, i, data_section, year, month, acc) ==
    IF i > Len(lines) THEN acc
    ELSE IF Strip(lines[i]) = <<"D", "A", "Y">>
         THEN dst_lines(lines, i + 1, TRUE, year, month, acc)
    ELSE IF data_section /\ Strip(lines[i]) # <<>>
         THEN LET r == dst_record(lines[i], year, month)
              IN  IF ~r.ok THEN r
                  ELSE dst_lines(lines, i + 1, data_section, year, month,
                                 [acc EXCEPT !.time_array = @ \o r.time_array,
                                             !.dst_array  = @ \o r.dst_array])
    ELSE dst_lines(lines, i + 1, data_section, year, month, acc)

NoSamples == [ok |-> TRUE, err |-> "", time_array |-> <<>>, dst_array |-> <<>>]

\* The check for more than one block missing: the first block found is parsed.
parse_dst_data_file_first_block(data, year, month) ==
    LET elements == find_all_pre_data(data)
    IN  IF Len(elements) = 0 THEN Raised("No <pre class=data>")
        ELSE dst_lines(SplitLines(elements[1]), 1, FALSE, year, month, NoSamples)

parse_dst_data_file(data, year, month) ==
    LET elements == find_all_pre_data(data)
    IN  IF Len(elements) > 1 THEN Raised("Multiple <pre class=data>")
        ELSE IF Len(elements) = 0 THEN Raised("No <pre class=data>")
        ELSE dst_lines(SplitLines(elements[1]), 1, FALSE, year, month, NoSamples)

---------------------------------------------------------------------------
(* Dst fixtures: documents in the layout of the WDC Kyoto monthly page.    *)

Spaces(n) == [i \in 1..n |-> " "]

RECURSIVE NatDigits(_)
NatDigits(n) ==
    IF n < 10 THEN <<DigitChars[n + 1]>>
    ELSE NatDigits(n \div 10) \o <<DigitChars[(n % 10) + 1]>>

\* f'{v:{w}d}': right-justified, never truncated.
FormatInt(v, w) ==
    LET body == IF v < 0 THEN <<"-">> \o NatDigits(0 - v) ELSE NatDigits(v)
    IN  Spaces(IF w > Len(body) THEN w - Len(body) ELSE 0) \o body

RECURSIVE Concat(_)
Concat(ss) == IF Len(ss) = 0 THEN <<>> ELSE Head(ss) \o Concat(Tail(ss))

\* A day record as a sequence of 24 field texts: day number, then three groups
\* of eight four-character fields, each group preceded by one space.
RecordLine(day, fields) ==
    FormatInt(day, 2)
      \o <<" ">> \o Concat([k \in 1..8 |-> fields[k]])
      \o <<" ">> \o Concat([k \in 1..8 |-> fields[8 + k]])
      \o <<" ">> \o Concat([k \in 1..8 |-> fields[16 + k]])

\* The value published for hour h of day d under value pattern p.
Value(p, d, h) ==
    IF p = 0 THEN 7 * h + d - 60
    ELSE IF p = 1 THEN 0 - (17 * h + d)
    ELSE 9999

GoodFields(p, d) == [h \in 1..HoursPerDay |-> FormatInt(Value(p, d, h), FieldWidth)]

BlockHead ==
    <<"\n", " ", "u", "n", "i", "t", "=", "n", "T", "\n",
      " ", " ", " ", " ", "1", " ", " ", " ", "2", "\n">>

DayMarker == <<"D", "A", "Y", "\n">>

\* The lines of a block, each terminated by a newline.
BlockText(marker, lines) ==
    BlockHead \o (IF marker THEN DayMarker ELSE <<>>)
      \o Concat([k \in 1..Len(lines) |-> lines[k] \o <<"\n">>])

Document(blocks) ==
    <<HtmlOpen>>
      \o Concat([k \in 1..Len(blocks) |-> <<PreDataOpen>> \o blocks[k] \o <<PreClose>>])
      \o <<HtmlClose>>

MaxRecs == 2

DstYears == {1957, 2000}

DaysFrom(first, n) == [i \in 1..n |-> first + i - 1]

\* Field texts that are not integers.
BadTexts ==
    << <<" ", " ", "a", "b">>, <<" ", " ", " ", "-">>, <<" ", " ", " ", " ">>,
       <<"1", " ", "2", " ">>, <<" ", "1", ".", "5">> >>

\* Lengths a day record (101 characters) is cut to.
ShortCuts == {2, 3, 50, 96, 97, 98, 99, 100}

Fixture(kind, y, m, days, p, cut, hour, bad) ==
    [kind |-> kind, year |-> y, month |-> m, days |-> days, pat |-> p,
     cut |-> cut, hour |-> hour, bad |-> bad]

DstFixtures ==
    UNION {
      {Fixture("valid", y, m, DaysFrom(1, n), p, 0, 0, 0) :
           n \in (1..MaxRecs) \cup {DaysInMonth(y, m)}, p \in 0..2}
      \cup {Fixture("valid", y, m, DaysFrom(DaysInMonth(y, m) - n + 1, n), p, 0, 0, 0) :
           n \in 1..MaxRecs, p \in 0..1}
      \cup {Fixture("short", y, m, DaysFrom(d, n), p, c, 0, 0) :
           d \in {1, 10}, n \in 1..MaxRecs, p \in 0..2, c \in ShortCuts}
      \cup {Fixture("badfield", y, m, DaysFrom(1, n), 0, 0, h, b) :
           n \in 1..MaxRecs, h \in {1, 8, 9, 24}, b \in 1..Len(BadTexts)}
      \cup {Fixture("badday", y, m, <<d>>, 0, 0, 0, 0) : d \in {0, DaysInMonth(y, m) + 1}}
      \cup {Fixture(k, y, m, DaysFrom(1, n), 0, 0, 0, 0) :
           k \in {"noblock", "twoblocks", "nomarker", "unclosed"}, n \in 1..MaxRecs}
      : y \in DstYears, m \in {1, 2, 12} }

\* The day records of a fixture; the first one carries the fixture's defect.
FixtureLines(f) ==
    [k \in 1..Len(f.days) |->
        LET good == GoodFields(f.pat, f.days[k])
        IN  IF k = 1 /\ f.kind = "short"
               THEN SubSeq(RecordLine(f.days[k], good), 1, f.cut)
            ELSE IF k = 1 /\ f.kind = "badfield"
               THEN RecordLine(f.days[k], [good EXCEPT ![f.hour] = BadTexts[f.bad]])
            ELSE RecordLine(f.days[k], good)]

DstData(f) ==
    LET text == BlockText(f.kind # "nomarker", FixtureLines(f))
    IN  IF f.kind = "noblock"
           THEN <<HtmlOpen, PreOpen>> \o text \o <<PreClose, HtmlClose>>
        ELSE IF f.kind = "twoblocks" THEN Document(<<text, text>>)
        ELSE IF f.kind = "unclosed" THEN <<HtmlOpen, PreDataOpen>> \o text
        ELSE Document(<<text>>)

---------------------------------------------------------------------------
(* Specification of parse_dst_data_file applied to a fixture.              *)

MainOff ==
    /\ pc = "off"
    /\ args = NoArgs
    /\ cache = <<>>
    /\ current_date = NoDate
    /\ time_array = <<>>
    /\ dst_array = <<>>
    /\ pending = NoPending
    /\ gets = <<>>
    /\ fed = <<>>
    /\ last_get = NoGet
    /\ sunspot_data = PendingSun
    /\ torn = {}
    /\ output = FALSE

DstOff == dst_in = <<>> /\ dst_meta = <<>> /\ dst_out = PendingDst
SunOff == sun_in = <<>> /\ sun_meta = <<>> /\ sun_out = PendingSun

InitDst ==
    /\ dst_meta \in DstFixtures
    /\ dst_in = [year |-> dst_meta.year, month |-> dst_meta.month, data |-> DstData(dst_meta)]
    /\ dst_out = PendingDst
    /\ SunOff
    /\ MainOff

ParseDst ==
    /\ dst_out = PendingDst
    /\ dst_out' = parse_dst_data_file(dst_in.data, dst_in.year, dst_in.month)
    /\ UNCHANGED <<dst_in, dst_meta, sunVars, mainVars>>

NextDst == ParseDst

SpecDst == InitDst /\ [][NextDst]_vars

---------------------------------------------------------------------------
(* Properties of parse_dst_data_file (checked under SpecDst).              *)

DstCalled == dst_out.err # "pending"

\* Number of days from 0001-01-01 to the given date, counted independently of
\* AddOneDay.
DaysBeforeMonth == <<0, 31, 59, 90, 120, 151, 181, 212, 243, 273, 304, 334>>
DayNumber(y, m, d) ==
    365 * (y - 1) + ((y - 1) \div 4) - ((y - 1) \div 100) + ((y - 1) \div 400)
      + DaysBeforeMonth[m] + (IF m > 2 /\ IsLeap(y) THEN 1 ELSE 0) + d

StrictlyIncreasing(ts) == \A i \in 1..(Len(ts) - 1) : TimeLess(ts[i], ts[i + 1])

ValidMonthFile(f) == f.kind = "valid" /\ f.days = DaysFrom(1, Len(f.days))

\* C1: a valid month file with records for days 1..N parses to exactly 24*N
\* timestamps and 24*N values, and the timestamps strictly increase in file
\* order, across day boundaries too.
C1_ValidMonthYields24N ==
    (DstCalled /\ ValidMonthFile(dst_meta)) =>
        /\ dst_out.ok
        /\ Len(dst_out.time_array) = 24 * Len(dst_meta.days)
        /\ Len(dst_out.dst_array) = 24 * Len(dst_meta.days)
        /\ StrictlyIncreasing(dst_out.time_array)

C1_Witness ==
    /\ DstCalled /\ ValidMonthFile(dst_meta)
    /\ Len(dst_meta.days) = DaysInMonth(dst_meta.year, dst_meta.month)
    /\ Len(dst_out.time_array) = 24 * DaysInMonth(dst_meta.year, dst_meta.month)

\* C4: for a record of day d, hours 1..23 are stamped (year, month, d, h) and
\* hour 24 is stamped hour 0 of the next calendar day; 31 December hour 24 is
\* 1 January of the next year, hour 0.
C4_HourTimestamps ==
    (DstCalled /\ dst_meta.kind = "valid") =>
        /\ dst_out.ok
        /\ \A k \in 1..Len(dst_meta.days) :
              LET y == dst_meta.year  m == dst_meta.month  d == dst_meta.days[k]
                  t24 == dst_out.time_array[24 * k]
              IN  /\ \A h \in 1..23 : dst_out.time_array[24 * (k - 1) + h] = <<y, m, d, h>>
                  /\ t24[4] = 0
                  /\ ValidDateTime(t24[1], t24[2], t24[3], t24[4])
                  /\ DayNumber(t24[1], t24[2], t24[3]) = DayNumber(y, m, d) + 1
                  /\ (m = 12 /\ d = 31 => t24 = <<y + 1, 1, 1, 0>>)

C4_Witness ==
    /\ DstCalled /\ dst_meta.kind = "valid" /\ dst_meta.month = 12
    /\ dst_meta.days = <<30, 31>>
    /\ dst_out.time_array[48] = <<dst_meta.year + 1, 1, 1, 0>>

BlockCount(f) ==
    IF f.kind = "noblock" THEN 0 ELSE IF f.kind = "twoblocks" THEN 2 ELSE 1

\* C5: a file with zero or with more than one <pre class="data"> block makes
\* the parse raise, with no sample produced; a parse that returns has read a
\* file with exactly one block.
C5_BlockCount ==
    DstCalled =>
        /\ BlockCount(dst_meta) = 0 => (~dst_out.ok /\ dst_out.err = "No <pre class=data>")
        /\ BlockCount(dst_meta) = 2 => (~dst_out.ok /\ dst_out.err = "Multiple <pre class=data>")
        /\ BlockCount(dst_meta) # 1 => (dst_out.time_array = <<>> /\ dst_out.dst_array = <<>>)
        /\ dst_out.ok => BlockCount(dst_meta) = 1

C5_Witness ==
    /\ DstCalled /\ dst_meta.kind = "twoblocks"
    /\ ~dst_out.ok /\ dst_out.time_array = <<>>

\* C6: a day record shorter than the full column span, or with a field that is
\* not an integer, makes the parse raise.
C6_ShortOrBadRecordIsFatal ==
    (DstCalled /\ dst_meta.kind \in {"short", "badfield"}) => ~dst_out.ok

\* The columns of the 24 hourly fields, written out.
ExpectedStart ==
    <<3, 7, 11, 15, 19, 23, 27, 31, 36, 40, 44, 48, 52, 56, 60, 64,
      69, 73, 77, 81, 85, 89, 93, 97>>

\* C9: the value of hour h is read from columns [start, start+4) with
\* start = 4h-1 (h <= 8), 4h (9 <= h <= 16), 4h+1 (h >= 17): hour 8 reads
\* [31:35), hour 9 [36:40), hour 17 [69:73); the ranges of two hours never
\* overlap; each value returned is the one published in that hour's field.
C9_ColumnOffsets ==
    /\ \A h \in 1..24 : start_index(h) = ExpectedStart[h]
    /\ \A h \in 1..24 :
          ExpectedStart[h] = IF h <= 8 THEN 4 * h - 1 ELSE IF h <= 16 THEN 4 * h ELSE 4 * h + 1
    /\ \A h \in 1..23 : start_index(h) + 4 <= start_index(h + 1)
    /\ (DstCalled /\ dst_meta.kind = "valid") =>
          /\ dst_out.ok
          /\ \A k \in 1..Len(dst_meta.days) : \A h \in 1..24 :
                /\ dst_out.dst_array[24 * (k - 1) + h]
                      = Value(dst_meta.pat, dst_meta.days[k], h)
                /\ ParseInt(Slice(FixtureLines(dst_meta)[k], ExpectedStart[h],
                                  ExpectedStart[h] + 4)).val
                      = dst_out.dst_array[24 * (k - 1) + h]

C9_Witness ==
    /\ DstCalled /\ dst_meta.kind = "valid" /\ dst_meta.pat = 1
    /\ Len(dst_out.dst_array) = 48
    /\ dst_out.dst_array[9] = Value(1, dst_meta.days[1], 9)
    /\ dst_out.dst_array[41] = Value(1, dst_meta.days[2], 17)

---------------------------------------------------------------------------
(* parse_sunspot_data_file                                                 *)

\* A decimal number n / 10^k in lowest form: no trailing zero in the fraction.
RECURSIVE Decimal(_, _)
Decimal(n, k) == IF k > 0 /\ n % 10 = 0 THEN Decimal(n \div 10, k - 1) ELSE <<n, k>>

\* float(s) on plain decimal text: surrounding whitespace stripped, optional
\* sign, digits with at most one point and at least one digit; anything else
\* raises ValueError.  (Exponents, inf, nan and underscores do not occur in
\* the texts this model feeds it.)
ParseFloat(s) ==
    LET t      == Strip(s)
        sgn    == Len(t) >= 1 /\ t[1] \in {"+", "-"}
        body   == IF sgn THEN SubSeq(t, 2, Len(t)) ELSE t
        points == {i \in 1..Len(body) : body[i] = "."}
        digits == SelectSeq(body, LAMBDA c : c # ".")
        frac   == IF points = {} THEN 0 ELSE Len(body) - SetMin(points)
        good   == /\ Cardinality(points) <= 1
                  /\ Len(digits) >= 1
                  /\ \A i \in 1..Len(digits) : digits[i] \in DigitSet
    IN  IF ~good THEN Failure
        ELSE LET mag == Decimal(DigitsValue(digits), frac)
             IN  [ok |-> TRUE,
                  val |-> IF sgn /\ t[1] = "-" THEN <<0 - mag[1], mag[2]>> ELSE mag]

\* date(year, month, 1) raises ValueError outside these ranges.
ValidDate(y, m, d) == y \in 1..9999 /\ m \in 1..12 /\ d \in 1..DaysInMonth(y, m)

\* `if (line.startswith(' 19') or line.startswith(' 20')) and len(line) > 8
\*  and line[7] == ' '`
is_data_record(line) ==
    /\ StartsWith(line, <<" ", "1", "9">>) \/ StartsWith(line, <<" ", "2", "0">>)
    /\ Len(line) > 8
    /\ line[8] = " "

\* The date appended before the blank check: a blank record leaves an entry in
\* time_array only.
sunspot_line_date_first(line, acc) ==
    IF ~is_data_record(line) THEN acc
    ELSE LET year     == ParseInt(Slice(line, 1, 5))
             month    == ParseInt(Slice(line, 8, 10))
             raw_str  == Slice(line, 40, 46)
             smoothed_str == Slice(line, 66, 72)
             raw      == ParseFloat(raw_str)
             smoothed == ParseFloat(smoothed_str)
         IN  IF ~year.ok \/ ~month.ok \/ ~ValidDate(year.val, month.val, 1)
                THEN RaisedSun("ValueError")
             ELSE IF Len(Strip(raw_str)) = 0 \/ Len(Strip(smoothed_str)) = 0
                THEN [acc EXCEPT !.time_array = Append(@, <<year.val, month.val, 1>>)]
             ELSE IF ~raw.ok \/ ~smoothed.ok THEN RaisedSun("ValueError")
             ELSE [acc EXCEPT !.time_array     = Append(@, <<year.val, month.val, 1>>),
                              !.raw_array      = Append(@, raw.val),
                              !.smoothed_array = Append(@, smoothed.val)]

\* One iteration of `for line in lines`, on the three arrays collected so far.
sunspot_line(line, acc) ==
    IF ~is_data_record(line) THEN acc
    ELSE LET year     == ParseInt(Slice(line, 1, 5))
             month    == ParseInt(Slice(line, 8, 10))
             raw_str  == Slice(line, 40, 46)
             smoothed_str == Slice(line, 66, 72)
             raw      == ParseFloat(raw_str)
             smoothed == ParseFloat(smoothed_str)
         IN  IF ~year.ok \/ ~month.ok THEN RaisedSun("ValueError")
             ELSE IF Len(Strip(raw_str)) = 0 \/ Len(Strip(smoothed_str)) = 0 THEN acc
             ELSE IF ~raw.ok \/ ~smoothed.ok THEN RaisedSun("ValueError")
             ELSE IF ~ValidDate(year.val, month.val, 1) THEN RaisedSun("ValueError")
             ELSE [acc EXCEPT !.time_array     = Append(@, <<year.val, month.val, 1>>),
                              !.raw_array      = Append(@, raw.val),
                              !.smoothed_array = Append(@, smoothed.val)]

RECURSIVE sunspot_lines(_, _, _)
sunspot_lines(lines, i, acc) ==
    IF i > Len(lines) THEN acc
    ELSE LET r == sunspot_line(lines[i], acc)
         IN  IF ~r.ok THEN r ELSE sunspot_lines(lines, i + 1, r)

\* The argument is the result of f.readlines(): lines with their newline.
parse_sunspot_data_file(lines) == sunspot_lines(lines, 1, NoMonths)

---------------------------------------------------------------------------
(* Sunspot fixtures: lines in the fixed-width layout of mtkmonthly.txt.    *)

\* f'{t/10:{w}.1f}' for t >= 0 tenths.
FormatTenths(t, w) ==
    LET body == NatDigits(t \div 10) \o <<".">> \o <<DigitChars[(t % 10) + 1]>>
    IN  Spaces(IF w > Len(body) THEN w - Len(body) ELSE 0) \o body

SunFill1 == Spaces(2) \o <<"2", "5">> \o Spaces(20) \o <<"1", "0", ".", "2">> \o Spaces(2)
SunFill2 == Spaces(3) \o <<"9", ".", "9">> \o Spaces(14)

\* Index 0: space; 1..4: year; 5..6: spaces; 7: marker; 8..9: month;
\* 10..39: other columns; 40..45: raw; 46..65: other columns; 66..71: smoothed.
SunLine(year_txt, mark, month_txt, raw_txt, smoothed_txt) ==
    <<" ">> \o year_txt \o Spaces(2) \o <<mark>> \o month_txt \o SunFill1
      \o raw_txt \o SunFill2 \o smoothed_txt \o <<"\n">>

SunMeta(kind, y, m, raw, sm) ==
    [kind |-> kind, year |-> y, month |-> m, raw |-> raw, smoothed |-> sm]

SunLineMetas ==
    { SunMeta("data", 1957, 1, 1234, 1100), SunMeta("data", 2001, 12, 0, 5),
      SunMeta("blankraw", 1957, 2, 0, 987), SunMeta("blanksmoothed", 1957, 3, 456, 0),
      SunMeta("marked", 1957, 4, 111, 222), SunMeta("header", 1857, 5, 333, 444),
      SunMeta("short", 1957, 6, 0, 0), SunMeta("badnumber", 1957, 7, 0, 10),
      SunMeta("badmonth", 1957, 13, 20, 30) }

SunText(f) ==
    LET y    == FormatInt(f.year, 4)
        m    == FormatInt(f.month, 2)
        raw  == FormatTenths(f.raw, 6)
        sm   == FormatTenths(f.smoothed, 6)
        full == SunLine(y, " ", m, raw, sm)
    IN  IF f.kind = "blankraw" THEN SunLine(y, " ", m, Spaces(6), sm)
        ELSE IF f.kind = "blanksmoothed" THEN SunLine(y, " ", m, raw, Spaces(6))
        ELSE IF f.kind = "marked" THEN SunLine(y, "*", m, raw, sm)
        ELSE IF f.kind = "short" THEN SubSeq(full, 1, 7) \o <<"\n">>
        ELSE IF f.kind = "badnumber"
           THEN SunLine(y, " ", m, <<" ", " ", "-", "-", ".", "-">>, sm)
        ELSE full

MaxLines == 3

SunFixtures ==
    UNION { [1..n -> SunLineMetas] : n \in 1..MaxLines }

---------------------------------------------------------------------------
(* Specification of parse_sunspot_data_file applied to a fixture.          *)

InitSunspot ==
    /\ sun_meta \in SunFixtures
    /\ sun_in = [k \in 1..Len(sun_meta) |-> SunText(sun_meta[k])]
    /\ sun_out = PendingSun
    /\ DstOff
    /\ MainOff

ParseSunspot ==
    /\ sun_out = PendingSun
    /\ sun_out' = parse_sunspot_data_file(sun_in)
    /\ UNCHANGED <<sun_in, sun_meta, dstVars, mainVars>>

NextSunspot == ParseSunspot

SpecSunspot == InitSunspot /\ [][NextSunspot]_vars

SunCalled == sun_out.err # "pending"

SunKept(f)  == f.kind = "data"
SunFatal(f) == f.kind \in {"badnumber", "badmonth"}

\* C8: the three sequences returned have equal length and are index-aligned:
\* a record whose raw or smoothed field is blank appears in none of them, and
\* a record with both fields contributes one entry to each, dated
\* (year, month, 1) with the raw and smoothed values of its fields.
C8_SunspotAligned ==
    SunCalled =>
        /\ sun_out.ok =>
              /\ Len(sun_out.time_array) = Len(sun_out.raw_array)
              /\ Len(sun_out.time_array) = Len(sun_out.smoothed_array)
        /\ (\A k \in 1..Len(sun_meta) : ~SunFatal(sun_meta[k])) =>
              LET kept == SelectSeq(sun_meta, SunKept)
              IN  /\ sun_out.ok
                  /\ sun_out.time_array =
                        [k \in 1..Len(kept) |-> <<kept[k].year, kept[k].month, 1>>]
                  /\ sun_out.raw_array =
                        [k \in 1..Len(kept) |-> Decimal(kept[k].raw, 1)]
                  /\ sun_out.smoothed_array =
                        [k \in 1..Len(kept) |-> Decimal(kept[k].smoothed, 1)]

C8_Witness ==
    /\ SunCalled /\ sun_out.ok
    /\ Len(sun_meta) = 3
    /\ sun_meta[1].kind = "data" /\ sun_meta[2].kind = "blankraw"
    /\ sun_meta[3].kind = "data" /\ sun_meta[3].year = 2001
    /\ sun_out.time_array = <<<<1957, 1, 1>>, <<2001, 12, 1>>>>
    /\ sun_out.raw_array = <<<<1234, 1>>, <<0, 0>>>>
    /\ sun_out.smoothed_array = <<<<110, 0>>, <<5, 1>>>>

---------------------------------------------------------------------------
(* main: the month loop, the cache and the downloads.                      *)

\* cache_dir / f'{year:04d}{month:02d}.html', as the number YYYYMM.
dst_cache_file_path(year, month) == year * 100 + month

\* cache_dir / 'mtkmonthly.txt'
SunspotKey == 0

\* The months the server publishes in this model, and the dates a run may ask for.
MonthList == << <<1957, 12>>, <<1958, 1>>, <<1958, 2>> >>
MonthKeys == {dst_cache_file_path(MonthList[i][1], MonthList[i][2]) : i \in 1..Len(MonthList)}
Keys      == MonthKeys \cup {SunspotKey}

DateChoices ==
    { <<1957, 12, 15>>, <<1958, 1, 1>>, <<1958, 1, 20>>, <<1958, 2, 28>> }

StatusCodes == {200, 404, 503}

\* The body the Dst server returns for a month: records for the first and the
\* last day of the month.
DstBody(year, month) ==
    Document(<< BlockText(TRUE,
        << RecordLine(1, GoodFields(0, 1)),
           RecordLine(DaysInMonth(year, month), GoodFields(0, DaysInMonth(year, month))) >>) >>)

\* The body the sunspot server returns.
SunspotBody ==
    SunText(SunMeta("data", 1957, 12, 1234, 1100))
      \o SunText(SunMeta("blankraw", 1958, 1, 0, 987))
      \o SunText(SunMeta("data", 1958, 2, 456, 5))

ServerBody(key) ==
    IF key = SunspotKey THEN SunspotBody ELSE DstBody(key \div 100, key % 100)

\* Number of characters that may have reached the disk when a write of the
\* body is interrupted: none, or up to inside the last field of the first
\* record, or up to the end of the first record.
TornLengths(key) ==
    IF key = SunspotKey THEN {0, 70}
    ELSE LET head == Len(<<HtmlOpen, PreDataOpen>> \o BlockHead \o DayMarker)
         IN  {0, head + 100, head + 102}

\* f.readlines(): the lines of a text, each with its newline.
RECURSIVE ReadLines(_)
ReadLines(s) ==
    LET nl == {i \in 1..Len(s) : s[i] = "\n"}
    IN  IF Len(s) = 0 THEN <<>>
        ELSE IF nl = {} THEN <<s>>
        ELSE LET k == SetMin(nl)
             IN  <<SubSeq(s, 1, k)>> \o ReadLines(SubSeq(s, k + 1, Len(s)))

DateLE(a, b) == a = b \/ TimeLess(a, b)

\* d.replace(day = 1)
FirstOfMonth(d) == <<d[1], d[2], 1>>

\* d + relativedelta(months = 1): the day is clipped to the length of the month.
AddOneMonth(d) ==
    LET y == IF d[2] = 12 THEN d[1] + 1 ELSE d[1]
        m == IF d[2] = 12 THEN 1 ELSE d[2] + 1
    IN  <<y, m, IF d[3] > DaysInMonth(y, m) THEN DaysInMonth(y, m) ELSE d[3]>>

\* `while current_date < end_month`: the month of the end date is left out.
loop_continues_strict(current, end_month) == TimeLess(current, end_month)

\* `while current_date <= end_month`
loop_continues(current, end_month) == DateLE(current, end_month)

\* The cache is never consulted.
needs_download_always(c, key) == TRUE

\* `if not cache_file.is_file()`
needs_download(c, key) == ~c[key].exists

\* Any status below 500 taken for success.
response_ok_lenient(status) == status < 500

\* `if response.status_code != 200: raise`
response_ok(status) == status = 200

\* Written to a temporary file and renamed: an interrupted write leaves nothing.
torn_file_atomic(body, n) == NoFile

\* `with open(cache_file, 'wb') as f: f.write(body)` interrupted after n characters.
torn_file(body, n) == File(SubSeq(body, 1, n))

CurrentKey == dst_cache_file_path(current_date[1], current_date[2])

Stopped == {"idle", "done", "aborted", "killed"}

Init ==
    /\ DstOff
    /\ SunOff
    /\ pc = "idle"
    /\ args = NoArgs
    /\ cache = [k \in Keys |-> NoFile]
    /\ current_date = NoDate
    /\ time_array = <<>>
    /\ dst_array = <<>>
    /\ pending = NoPending
    /\ gets = [k \in Keys |-> 0]
    /\ fed = <<>>
    /\ last_get = NoGet
    /\ sunspot_data = PendingSun
    /\ torn = {}
    /\ output = FALSE

\* A new process: parse_arguments and the first lines of main.
StartRun(start_date, end_date) ==
    /\ pc \in Stopped
    /\ args' = [start_date |-> start_date, end_date |-> end_date]
    /\ time_array' = <<>>
    /\ dst_array' = <<>>
    /\ pending' = NoPending
    /\ gets' = [k \in Keys |-> 0]
    /\ fed' = <<>>
    /\ last_get' = NoGet
    /\ sunspot_data' = PendingSun
    /\ output' = FALSE
    /\ IF ~TimeLess(start_date, end_date)
          THEN pc' = "aborted" /\ current_date' = NoDate
          ELSE pc' = "loop" /\ current_date' = FirstOfMonth(start_date)
    /\ UNCHANGED <<cache, torn, dstVars, sunVars>>

\* The rest of get_dst_data and of the loop body, once the cache file is there.
ParseMonth(c) ==
    LET data == c[CurrentKey].data
        r    == parse_dst_data_file(data, current_date[1], current_date[2])
    IN  /\ fed' = Append(fed, [key |-> CurrentKey, data |-> data])
        /\ IF r.ok
              THEN /\ time_array' = time_array \o r.time_array
                   /\ dst_array' = dst_array \o r.dst_array
                   /\ current_date' = AddOneMonth(current_date)
                   /\ pc' = "loop"
              ELSE /\ pc' = "aborted"
                   /\ UNCHANGED <<time_array, dst_array, current_date>>

\* A loop iteration whose month is in the cache.
MonthCached ==
    /\ pc = "loop"
    /\ loop_continues(current_date, FirstOfMonth(args.end_date))
    /\ ~needs_download(cache, CurrentKey)
    /\ ParseMonth(cache)
    /\ UNCHANGED <<args, cache, pending, gets, last_get, sunspot_data, torn, output,
                   dstVars, sunVars>>

\* download_dst_data up to `open(cache_file, 'wb')`.
MonthDownload(status) ==
    /\ pc = "loop"
    /\ loop_continues(current_date, FirstOfMonth(args.end_date))
    /\ needs_download(cache, CurrentKey)
    /\ gets' = [gets EXCEPT ![CurrentKey] = @ + 1]
    /\ last_get' = [key |-> CurrentKey, status |-> status]
    /\ IF response_ok(status)
          THEN /\ cache' = [cache EXCEPT ![CurrentKey] = File(<<>>)]
               /\ pending' = [key |-> CurrentKey, body |-> ServerBody(CurrentKey)]
               /\ pc' = "writing"
          ELSE /\ pc' = "aborted"
               /\ UNCHANGED <<cache, pending>>
    /\ UNCHANGED <<args, current_date, time_array, dst_array, fed, sunspot_data, torn,
                   output, dstVars, sunVars>>

\* f.write(response.content), then the parse of the file just written.
MonthWrite ==
    /\ pc = "writing"
    /\ cache' = [cache EXCEPT ![pending.key] = File(pending.body)]
    /\ pending' = NoPending
    /\ ParseMonth(cache')
    /\ UNCHANGED <<args, gets, last_get, sunspot_data, torn, output, dstVars, sunVars>>

\* The loop condition fails: main goes on to the plot.
LoopExit ==
    /\ pc = "loop"
    /\ ~loop_continues(current_date, FirstOfMonth(args.end_date))
    /\ pc' = "plot"
    /\ UNCHANGED <<args, cache, current_date, time_array, dst_array, pending, gets, fed,
                   last_get, sunspot_data, torn, output, dstVars, sunVars>>

\* The rest of get_sunspot_data once the cache file is there, then savefig.
ParseSunspotFile(c) ==
    LET data == c[SunspotKey].data
        r    == parse_sunspot_data_file(ReadLines(data))
    IN  /\ fed' = Append(fed, [key |-> SunspotKey, data |-> data])
        /\ IF r.ok
              THEN sunspot_data' = r /\ output' = TRUE /\ pc' = "done"
              ELSE pc' = "aborted" /\ UNCHANGED <<sunspot_data, output>>

SunspotCached ==
    /\ pc = "plot"
    /\ ~needs_download(cache, SunspotKey)
    /\ ParseSunspotFile(cache)
    /\ UNCHANGED <<args, cache, current_date, time_array, dst_array, pending, gets,
                   last_get, torn, dstVars, sunVars>>

\* download_sunspot_data up to `open(cache_file, 'w')`.
SunspotDownload(status) ==
    /\ pc = "plot"
    /\ needs_download(cache, SunspotKey)
    /\ gets' = [gets EXCEPT ![SunspotKey] = @ + 1]
    /\ last_get' = [key |-> SunspotKey, status |-> status]
    /\ IF response_ok(status)
          THEN /\ cache' = [cache EXCEPT ![SunspotKey] = File(<<>>)]
               /\ pending' = [key |-> SunspotKey, body |-> ServerBody(SunspotKey)]
               /\ pc' = "sunwriting"
          ELSE /\ pc' = "aborted"
               /\ UNCHANGED <<cache, pending>>
    /\ UNCHANGED <<args, current_date, time_array, dst_array, fed, sunspot_data, torn,
                   output, dstVars, sunVars>>

SunspotWrite ==
    /\ pc = "sunwriting"
    /\ cache' = [cache EXCEPT ![pending.key] = File(pending.body)]
    /\ pending' = NoPending
    /\ ParseSunspotFile(cache')
    /\ UNCHANGED <<args, current_date, time_array, dst_array, gets, last_get, torn,
                   dstVars, sunVars>>

\* The process is killed while the cache file is open for writing, n
\* characters of the body having reached the disk.
InterruptWrite(n) ==
    /\ pc \in {"writing", "sunwriting"}
    /\ n < Len(pending.body)
    /\ cache' = [cache EXCEPT ![pending.key] = torn_file(pending.body, n)]
    /\ torn' = torn \cup {pending.key}
    /\ pending' = NoPending
    /\ pc' = "killed"
    /\ UNCHANGED <<args, current_date, time_array, dst_array, gets, fed, last_get,
                   sunspot_data, output, dstVars, sunVars>>

Next ==
    \/ \E s \in DateChoices, e \in DateChoices : StartRun(s, e)
    \/ MonthCached
    \/ \E st \in StatusCodes : MonthDownload(st)
    \/ MonthWrite
    \/ LoopExit
    \/ SunspotCached
    \/ \E st \in StatusCodes : SunspotDownload(st)
    \/ SunspotWrite
    \/ \E n \in TornLengths(pending.key) : InterruptWrite(n)

Spec == Init /\ [][Next]_vars

---------------------------------------------------------------------------
(* Properties of main (checked under Spec).                                *)

\* The cache file of key k is open for writing: its first write is under way.
Writing(k) == pc \in {"writing", "sunwriting"} /\ pending.key = k

\* C2: once a cache file exists for a key, no step of any run issues a GET for
\* that key again or changes or removes the file; a run that finds every file
\* it needs in the cache issues no GET at all.
C2_CachedNeverRefetched ==
    [][\A k \in Keys :
          (cache[k].exists /\ ~Writing(k)) =>
              (cache'[k] = cache[k] /\ gets'[k] <= gets[k])]_vars

C2_Witness ==
    /\ pc = "done"
    /\ \A k \in Keys : gets[k] = 0 /\ cache[k].exists
    /\ Len(fed) = 4

MonthIndex(d) == d[1] * 12 + d[2] - 1

\* The cache keys of the calendar months from the month of the start date to
\* the month of the end date, ascending.
RangeKeys(a) ==
    [i \in 1..(MonthIndex(a.end_date) - MonthIndex(a.start_date) + 1) |->
        LET x == MonthIndex(a.start_date) + i - 1
        IN  dst_cache_file_path(x \div 12, (x % 12) + 1)]

IsMonthEntry(e) == e.key # SunspotKey

AfterLoop == pc \in {"plot", "sunwriting", "done"}

\* C3: when the loop of main ends, it has parsed every calendar month from the
\* month of the start date to the month of the end date exactly once, in
\* ascending order, and the series is the concatenation, in that order, of
\* what parsing each month's file alone yields; its timestamps strictly
\* increase, across month boundaries too.
C3_MonthsConcatenated ==
    AfterLoop =>
        LET ks == RangeKeys(args)
            fm == SelectSeq(fed, IsMonthEntry)
            alone(i) == parse_dst_data_file(cache[ks[i]].data, ks[i] \div 100, ks[i] % 100)
        IN  /\ [i \in 1..Len(fm) |-> fm[i].key] = ks
            /\ time_array = Concat([i \in 1..Len(ks) |-> alone(i).time_array])
            /\ dst_array = Concat([i \in 1..Len(ks) |-> alone(i).dst_array])
            /\ Len(time_array) = Len(dst_array)
            /\ StrictlyIncreasing(time_array)

C3_Witness ==
    /\ pc = "done"
    /\ args = [start_date |-> <<1957, 12, 15>>, end_date |-> <<1958, 2, 28>>]
    /\ Len(time_array) = 144
    /\ time_array[48] = <<1958, 1, 1, 0>>
    /\ time_array[49] = <<1958, 1, 1, 1>>

\* Key k comes after key f in the order main visits them.
VisitedAfter(k, f) == f # SunspotKey /\ (k = SunspotKey \/ k > f)

\* C7: when a GET returns a status other than 200 the run is aborted: one GET
\* was issued for that key, no cache file exists for it, nothing that main
\* visits later has been fetched or parsed, and no output is written.
C7_Non200Aborts ==
    (last_get # NoGet /\ last_get.status # 200) =>
        /\ pc = "aborted"
        /\ gets[last_get.key] = 1
        /\ ~cache[last_get.key].exists
        /\ output = FALSE
        /\ sunspot_data = PendingSun
        /\ \A k \in Keys : VisitedAfter(k, last_get.key) => gets[k] = 0
        /\ \A i \in 1..Len(fed) :
              fed[i].key # last_get.key /\ ~VisitedAfter(fed[i].key, last_get.key)

C7_Witness ==
    /\ pc = "aborted"
    /\ last_get = [key |-> 195801, status |-> 404]
    /\ Len(fed) = 1
    /\ gets[195712] = 1
    /\ Len(time_array) = 48

IsProperPrefix(s, t) == Len(s) < Len(t) /\ s = SubSeq(t, 1, Len(s))

\* C10: a write interrupted before the whole body is written leaves a
\* truncated file at the cache path; later runs issue no GET for that key and
\* hand the truncated content to the parser.
C10_TornFileTrusted ==
    /\ [](\A k \in torn :
            /\ cache[k].exists
            /\ IsProperPrefix(cache[k].data, ServerBody(k))
            /\ gets[k] = 0 \/ (pc = "killed" /\ last_get.key = k /\ gets[k] = 1)
            /\ \A i \in 1..Len(fed) : fed[i].key = k => fed[i].data = cache[k].data)
    /\ [][/\ (pc = "loop" /\ DateLE(current_date, FirstOfMonth(args.end_date))
                /\ CurrentKey \in torn)
             => fed' = Append(fed, [key |-> CurrentKey, data |-> cache[CurrentKey].data])
          /\ (pc = "plot" /\ SunspotKey \in torn)
             => fed' = Append(fed, [key |-> SunspotKey, data |-> cache[SunspotKey].data])
       ]_vars

C10_Witness ==
    /\ pc = "done"
    /\ 195712 \in torn
    /\ gets[195712] = 0
    /\ fed[1].key = 195712
    /\ IsProperPrefix(fed[1].data, ServerBody(195712))
    /\ Len(dst_array) >= 24
    /\ dst_array[24] = 10

=============================================================================
